---- MODULE Spec2Model ----
(***************************************************************************)
(* Model of the streamflow convolution routine                             *)
(* src/convolution/python/coup_conv.py (jhamman/Streamflow_Routing).       *)
(*                                                                         *)
(* Conventions                                                             *)
(*  - numpy arrays are sequences; a Python index i is the TLA+ index i+1.  *)
(*    Grid cells keep their Python coordinates: a cell is <<y, x>> with    *)
(*    y, x >= 0.                                                           *)
(*  - numbers are exact integers standing for fixed-point values: unit     *)
(*    hydrograph coefficients and everything derived from them (ring,      *)
(*    streamflow, state) count tenths, fluxes count units.  So the         *)
(*    coefficient 0.5 is 5 and the streamflow 5.0 is 50.                   *)
(*  - a Python dict is a record; a key the code never set is a field the   *)
(*    record does not have ("ring" \notin DOMAIN d).                       *)
(*  - a raised exception ends the call: the operator's result carries      *)
(*    raised = <exception name> and whatever had been mutated before.      *)
(*  - the grid file holds the areas `area` in its own unit; init's         *)
(*    conversion to square meters is kept exactly in area_m2.  The         *)
(*    registry's coefficients are made from `area`, so for a grid file     *)
(*    that is not in square meters they count multiples of the unit's      *)
(*    conversion factor.                                                   *)
(*                                                                         *)
(* Specifications                                                          *)
(*  - Spec, SpecRestart, SpecInvalid: make_point_dict, convolve and        *)
(*    write_output as functions, called by a caller that binds their       *)
(*    results: a registry is built, timesteps are made on flux grids, a    *)
(*    state is written and a new process is started from it.               *)
(*  - SpecRun: init() and run() as they are written, on a grid file in     *)
(*    any unit and a queue of flux files.  main() is no action of the      *)
(*    model: its line 48 is the expression statement (Config, uh_files,    *)
(*    flux_files), which raises NameError before anything is called.       *)
(***************************************************************************)
EXTENDS Integers, Sequences, FiniteSets, TLC

\* ------------------------------------------------------------- bounds
\* Largest number of flux grids (timesteps) one run is given.
MaxT == 4

\* Largest number of unit hydrograph files (outlets) of one run.
MaxPoints == 2

\* ------------------------------------------------------------- constants
waterDensity == 1000

\* Lines 18-27.  A constant with decimals is [n |-> digits, e |-> number of
\* digits after the point]: 1609.34 is [n |-> 160934, e |-> 2].
earthRadius == [n |-> 6371220, e |-> 0]
metersPerKm == [n |-> 1000, e |-> 0]
metersPerMile == [n |-> 160934, e |-> 2]
meters2PerAcre == [n |-> 4046856, e |-> 3]
hoursPerDay == 24
secsPerHour == 3600
secsPerDay == hoursPerDay * secsPerHour
mmPerMeter == 1000
cmPerMeter == 100

\* Python's None where a state array or state file is expected.
NoState == [ndim |-> 0]
NoError == "none"

\* ------------------------------------------------------------- numpy helpers
RECURSIVE SumSeq(_)
\* ndarray.sum() of a 1-D array.
SumSeq(s) == IF s = <<>> THEN 0 ELSE Head(s) + SumSeq(Tail(s))

RECURSIVE SumOver(_, _)
\* ndarray.sum() of an array given as a function over the index set S.
SumOver(f, S) ==
    IF S = {} THEN 0
    ELSE LET c == CHOOSE e \in S : TRUE IN f[c] + SumOver(f, S \ {c})

Zeros(n) == [i \in 1..n |-> 0]

Cells(shp) == {<<y, x>> : y \in 0..(shp[1] - 1), x \in 0..(shp[2] - 1)}

\* numpy accepts the index i on an axis of length n when -n <= i < n.
InAxis(i, n) == (0 - n) <= i /\ i < n
\* A negative index counts from the end of the axis.
Wrap(i, n) == IF i < 0 THEN i + n ELSE i

\* numpy broadcasting of a 1-D array of length m onto one of length n.
Broadcastable(m, n) == m = n \/ m = 1
BroadcastAt(v, i) == IF Len(v) = 1 THEN v[1] ELSE v[i]

\* shift rotating the other way (cshift with the sign of the offset kept).
shift_right(l, offset) ==
    LET off == offset % Len(l)
    IN  SubSeq(l, Len(l) - off + 1, Len(l)) \o SubSeq(l, 1, Len(l) - off)

\* shift(l, offset): see line 572.  l[offset:] ++ l[:offset].
shift(l, offset) ==
    LET off == offset % Len(l)
    IN  SubSeq(l, off + 1, Len(l)) \o SubSeq(l, 1, off)

\* ------------------------------------------------------------- inputs
\* The routing grid the unit hydrographs were made on (rows, columns).
GridShape == <<2, 2>>

\* Grid cell areas in square meters, as init() hands them to make_point_dict.
area == [c \in Cells(GridShape) |-> IF c = <<1, 1>> THEN 2 ELSE 1]

\* The unit hydrograph files at hand.  Each holds one outlet: its
\* location, the K contributing cells (yi, xi), the L x K impulse response
\* (unit_hydrograph, rows are lags), the fraction of each contributing cell
\* and the time axis of the L lags (days).
UHNames == {"uhA", "uhB", "uhC"}

UHFile(name) ==
    CASE name = "uhA" ->
           [outlet_y |-> 0, outlet_x |-> 0, outlet_lat |-> 40, outlet_lon |-> 10,
            yi |-> <<0>>, xi |-> <<0>>, time |-> <<0, 1, 2>>,
            unit_hydrograph |-> << <<5>>, <<3>>, <<2>> >>,
            fraction |-> <<1>>]
      [] name = "uhB" ->
           [outlet_y |-> 0, outlet_x |-> 1, outlet_lat |-> 40, outlet_lon |-> 11,
            yi |-> <<0, 1>>, xi |-> <<1, 1>>, time |-> <<1, 2>>,
            unit_hydrograph |-> << <<1, 2>>, <<3, 1>> >>,
            fraction |-> <<2, 1>>]
      [] name = "uhC" ->
           [outlet_y |-> 1, outlet_x |-> 0, outlet_lat |-> 41, outlet_lon |-> 10,
            yi |-> <<1>>, xi |-> <<0>>, time |-> <<2>>,
            unit_hydrograph |-> << <<4>> >>,
            fraction |-> <<1>>]
      [] name = "uhL0" ->
           [outlet_y |-> 1, outlet_x |-> 1, outlet_lat |-> 41, outlet_lon |-> 11,
            yi |-> <<1>>, xi |-> <<1>>, time |-> <<>>,
            unit_hydrograph |-> <<>>,
            fraction |-> <<1>>]
      [] name = "uhK0" ->
           [outlet_y |-> 1, outlet_x |-> 1, outlet_lat |-> 41, outlet_lon |-> 11,
            yi |-> <<>>, xi |-> <<>>, time |-> <<0, 1>>,
            unit_hydrograph |-> << <<>>, <<>> >>,
            fraction |-> <<>>]

\* Unit hydrograph files with an empty time axis (L = 0: uhL0) and with no
\* contributing cell (K = 0: uhK0).
InvalidUHNames == {"uhL0", "uhK0"}

\* ------------------------------------------------------------- OrderedDict
\* point_dict is an OrderedDict: a sequence of <<key, value>> entries in
\* insertion order.
HasKey(pd, key) == \E i \in 1..Len(pd) : pd[i].key = key

IndexOfKey(pd, key) == CHOOSE i \in 1..Len(pd) : pd[i].key = key

\* pd[key] = d: a new key is appended, an existing key keeps its place.
SetItem(pd, key, d) ==
    IF HasKey(pd, key)
    THEN [pd EXCEPT ![IndexOfKey(pd, key)] = [key |-> key, d |-> d]]
    ELSE Append(pd, [key |-> key, d |-> d])

\* d['ring'] = value on a dict that may not have the key yet.
WithRing(d, value) ==
    [f \in DOMAIN d \cup {"ring"} |-> IF f = "ring" THEN value ELSE d[f]]

\* ------------------------------------------------------------- make_point_dict
\* Lines 384-387: the unit hydrograph scaled by the contributing cells'
\* fraction and area (and, for mass units, by density over the outlet
\* cell's area).
ScaledUH(f, units, rho_h20) ==
    [l \in 1..Len(f.unit_hydrograph) |->
       [k \in 1..Len(f.yi) |->
          LET vol == f.unit_hydrograph[l][k] * f.fraction[k]
                       * area[<<f.yi[k], f.xi[k]>>]
          IN  IF units = "kg/m2*s"
              THEN (vol * rho_h20) \div area[<<f.outlet_y, f.outlet_x>>]
              ELSE vol]]

\* Lines 363-400: the dict of one unit hydrograph file.
PointEntry(name, units, rho_h20, initial_state) ==
    LET f == UHFile(name)
        base == [time |-> f.time, xi |-> f.xi, yi |-> f.yi,
                 x |-> f.outlet_x, y |-> f.outlet_y,
                 lat |-> f.outlet_lat, lon |-> f.outlet_lon,
                 uh |-> ScaledUH(f, units, rho_h20), now |-> 0]
    IN  IF initial_state = NoState
        THEN WithRing(base, Zeros(Len(base.uh)))
        ELSE base

RECURSIVE BuildPoints(_, _, _, _, _)
\* Lines 361-400: the loop over uh_files.
BuildPoints(uh_files, units, rho_h20, initial_state, pd) ==
    IF uh_files = <<>> THEN pd
    ELSE LET d == PointEntry(Head(uh_files), units, rho_h20, initial_state)
         IN  BuildPoints(Tail(uh_files), units, rho_h20, initial_state,
                         SetItem(pd, <<d.y, d.x>>, d))

\* Column of a 3-D state array, state[:, y, x]; the state array is
\* [shape |-> <<nt, ny, nx>>, val |-> cell -> column].
GridColumn(state, y, x) == state.val[<<Wrap(y, state.shape[2]), Wrap(x, state.shape[3])>>]

RECURSIVE RestoreGrid(_, _, _)
\* Lines 408-409: every outlet of the registry takes the column of the
\* state grid at its own key.
RestoreGrid(pd, state, i) ==
    IF i > Len(pd) THEN [raised |-> NoError, point_dict |-> pd]
    ELSE LET key == pd[i].key
         IN  IF ~(InAxis(key[1], state.shape[2]) /\ InAxis(key[2], state.shape[3]))
             THEN [raised |-> "IndexError", point_dict |-> pd]
             ELSE RestoreGrid(
                    [pd EXCEPT ![i].d = WithRing(@, GridColumn(state, key[1], key[2]))],
                    state, i + 1)

RECURSIVE RestoreArray(_, _, _)
\* Lines 411-415: every column of the state array goes to the outlet whose
\* key is (yi[i], xi[i]) of the state file; point_dict[key] raises KeyError
\* when the registry has no such outlet.
RestoreArray(pd, st, i) ==
    IF i > Len(st.Streamflow) THEN [raised |-> NoError, point_dict |-> pd]
    ELSE LET key == <<st.yi[i], st.xi[i]>>
         IN  IF ~HasKey(pd, key)
             THEN [raised |-> "KeyError", point_dict |-> pd]
             ELSE RestoreArray(
                    [pd EXCEPT ![IndexOfKey(pd, key)].d = WithRing(@, st.Streamflow[i])],
                    st, i + 1)

\* Lines 402-416.  A state file is [ndim |-> 3, Streamflow |-> grid] or
\* [ndim |-> 2, Streamflow |-> columns, xi |-> ..., yi |-> ...].
Restore(pd, initial_state) ==
    IF initial_state = NoState THEN [raised |-> NoError, point_dict |-> pd]
    ELSE IF initial_state.ndim = 3
         THEN RestoreGrid(pd, initial_state.Streamflow, 1)
         ELSE RestoreArray(pd, initial_state, 1)

\* Lines 346-430.
make_point_dict(uh_files, out_dict, counts, rho_h20, initial_state) ==
    LET built == BuildPoints(uh_files, out_dict.units, rho_h20, initial_state, <<>>)
        r == Restore(built, initial_state)
        pd == r.point_dict
        n == Len(pd)
    IN  [raised |-> r.raised,
         point_dict |-> pd,
         out_dict |-> [f \in DOMAIN out_dict \cup {"lats", "lons", "outlet_xs", "outlet_ys"} |->
                         CASE f = "lats" -> [i \in 1..n |-> pd[i].d.lat]
                           [] f = "lons" -> [i \in 1..n |-> pd[i].d.lon]
                           [] f = "outlet_xs" -> [i \in 1..n |-> pd[i].d.x]
                           [] f = "outlet_ys" -> [i \in 1..n |-> pd[i].d.y]
                           [] OTHER -> out_dict[f]],
         counts |-> [f \in DOMAIN counts \cup {"points"} |->
                       IF f = "points" THEN Len(uh_files) ELSE counts[f]]]

\* ------------------------------------------------------------- convolve
\* A flux array is [shape |-> <<ny, nx>>, val |-> cell -> value]; its
\* leading time axis has length 1 (one timestep per flux file).
\* flux[:, d['yi'], d['xi']] raises IndexError when a contributing cell is
\* outside the flux array.
FluxCovers(flux, d) ==
    \A k \in 1..Len(d.yi) :
        InAxis(d.yi[k], flux.shape[1]) /\ InAxis(d.xi[k], flux.shape[2])

FluxAt(flux, y, x) == flux.val[<<Wrap(y, flux.shape[1]), Wrap(x, flux.shape[2])>>]

\* Line 460, right-hand side: (flux[:, yi, xi] * uh).sum(axis=1).
Contribution(flux, d) ==
    [l \in 1..Len(d.uh) |->
       SumSeq([k \in 1..Len(d.yi) |-> FluxAt(flux, d.yi[k], d.xi[k]) * d.uh[l][k]])]

\* The ring assigned ("=") where the code accumulates ("+=").
AddInPlace_assign(ring, c) == [i \in 1..Len(ring) |-> BroadcastAt(c, i)]

\* Line 460, the in-place add: the right-hand side is broadcast onto the ring.
AddInPlace(ring, c) == [i \in 1..Len(ring) |-> ring[i] + BroadcastAt(c, i)]

\* Lines 441-445.
OutType(shape) == IF Len(shape) = 1 THEN "array" ELSE "grid"

\* The output array filled with ones.
NewOutFlow_ones(shape) ==
    IF Len(shape) = 1 THEN [i \in 1..shape[1] |-> 1] ELSE [c \in Cells(shape) |-> 1]

\* Line 441: np.zeros(shape).
NewOutFlow(shape) ==
    IF Len(shape) = 1 THEN Zeros(shape[1]) ELSE [c \in Cells(shape) |-> 0]

\* Lines 448-457: the state array and its time, made from the first outlet.
NewOutState(d, return_state, shape) ==
    IF ~return_state THEN NoState
    ELSE IF OutType(shape) = "array"
         THEN [ndim |-> 2, nt |-> Len(d.uh),
               cols |-> [j \in 1..shape[1] |-> Zeros(Len(d.uh))]]
         ELSE [ndim |-> 3, shape |-> <<Len(d.uh), shape[1], shape[2]>>,
               val |-> [c \in Cells(shape) |-> Zeros(Len(d.uh))]]

OutStateTime(d, time_dict, return_state) ==
    IF return_state
    THEN [l \in 1..Len(d.time) |-> d.time[l] + time_dict.time_step]
    ELSE <<>>

\* Number of rows of a state array.
StateRows(out_state) == IF out_state.ndim = 2 THEN out_state.nt ELSE out_state.shape[1]

\* Lines 476 and 478: out_state[:, i] = ring, the ring broadcast onto the column.
StoreState(out_state, i, point, ring) ==
    LET col == [l \in 1..StateRows(out_state) |-> BroadcastAt(ring, l)]
    IN  IF out_state.ndim = 2
        THEN [out_state EXCEPT !.cols[i] = col]
        ELSE [out_state EXCEPT !.val[<<Wrap(point[1], out_state.shape[2]),
                                       Wrap(point[2], out_state.shape[3])>>] = col]

\* The streamflow stored on top of what the outlets before it emitted.
StoreFlow_running(out_flow, shape, i, d, value) ==
    IF Len(shape) = 1
    THEN [out_flow EXCEPT ![i] = value + SumSeq(out_flow)]
    ELSE [out_flow EXCEPT ![<<Wrap(d.y, shape[1]), Wrap(d.x, shape[2])>>] =
            value + SumOver(out_flow, Cells(shape))]

\* Lines 464 and 466.
StoreFlow(out_flow, shape, i, d, value) ==
    IF OutType(shape) = "array"
    THEN [out_flow EXCEPT ![i] = value]
    ELSE [out_flow EXCEPT ![<<Wrap(d.y, shape[1]), Wrap(d.x, shape[2])>>] = value]

FlowIndexOk(shape, i, d) ==
    IF OutType(shape) = "array"
    THEN i <= shape[1]
    ELSE InAxis(d.y, shape[1]) /\ InAxis(d.x, shape[2])

StateIndexOk(out_state, i, point) ==
    IF out_state.ndim = 2
    THEN i <= Len(out_state.cols)
    ELSE InAxis(point[1], out_state.shape[2]) /\ InAxis(point[2], out_state.shape[3])

\* The rotation without line 469: the emitted slot is not zeroed.
ZeroAndShift_keep(ring, now) == shift(ring, 1)

\* Lines 469-472: zero the slot just read, then rotate by one.
ZeroAndShift(ring, now) == shift([ring EXCEPT ![now + 1] = 0], 1)

\* The loop body with one ring shared by all outlets: what the i-th outlet
\* leaves in its ring is the ring of every outlet.
ConvolvePoint_shared(acc, flux, return_state, shape, i) ==
    LET point == acc.point_dict[i].key
        d == acc.point_dict[i].d
        first == IF i = 1
                 THEN [acc EXCEPT !.out_state = NewOutState(d, return_state, shape),
                                  !.time_dict = [f \in DOMAIN acc.time_dict \cup {"out_state_time"} |->
                                                   IF f = "out_state_time"
                                                   THEN OutStateTime(d, acc.time_dict, return_state)
                                                   ELSE acc.time_dict[f]]]
                 ELSE acc
    IN  IF "ring" \notin DOMAIN d
        THEN [first EXCEPT !.raised = "KeyError"]
        ELSE IF ~FluxCovers(flux, d)
        THEN [first EXCEPT !.raised = "IndexError"]
        ELSE IF ~Broadcastable(Len(d.uh), Len(d.ring))
        THEN [first EXCEPT !.raised = "ValueError"]
        ELSE
          LET added == AddInPlace(d.ring, Contribution(flux, d))
              afterAdd == [first EXCEPT !.point_dict[i].d.ring = added]
          IN  IF Len(added) = 0 \/ ~FlowIndexOk(shape, i, d)
              THEN [afterAdd EXCEPT !.raised = "IndexError"]
              ELSE
                LET rotated == ZeroAndShift(added, d.now)
                    afterShift ==
                        [afterAdd EXCEPT
                            !.out_flow = StoreFlow(@, shape, i, d, added[1]),
                            !.point_dict =
                                [j \in 1..Len(afterAdd.point_dict) |->
                                    [key |-> afterAdd.point_dict[j].key,
                                     d |-> WithRing(afterAdd.point_dict[j].d, rotated)]]]
                IN  IF ~return_state THEN afterShift
                    ELSE IF ~StateIndexOk(first.out_state, i, point)
                    THEN [afterShift EXCEPT !.raised = "IndexError"]
                    ELSE IF ~Broadcastable(Len(rotated), StateRows(first.out_state))
                    THEN [afterShift EXCEPT !.raised = "ValueError"]
                    ELSE [afterShift EXCEPT
                            !.out_state = StoreState(@, i, point, rotated)]

\* Lines 459-479 for the i-th outlet (i counts from 1).  acc is the state of
\* the loop: the registry, out_flow, out_state, time_dict and the exception
\* raised, if any.  d is the very dict the registry holds, so each
\* assignment to d['ring'] is seen in the registry at once.
ConvolvePoint(acc, flux, return_state, shape, i) ==
    LET point == acc.point_dict[i].key
        d == acc.point_dict[i].d
        first == IF i = 1
                 THEN [acc EXCEPT !.out_state = NewOutState(d, return_state, shape),
                                  !.time_dict = [f \in DOMAIN acc.time_dict \cup {"out_state_time"} |->
                                                   IF f = "out_state_time"
                                                   THEN OutStateTime(d, acc.time_dict, return_state)
                                                   ELSE acc.time_dict[f]]]
                 ELSE acc
    IN  IF "ring" \notin DOMAIN d
        THEN [first EXCEPT !.raised = "KeyError"]
        ELSE IF ~FluxCovers(flux, d)
        THEN [first EXCEPT !.raised = "IndexError"]
        ELSE IF ~Broadcastable(Len(d.uh), Len(d.ring))
        THEN [first EXCEPT !.raised = "ValueError"]
        ELSE
          LET added == AddInPlace(d.ring, Contribution(flux, d))
              afterAdd == [first EXCEPT !.point_dict[i].d.ring = added]
          IN  IF Len(added) = 0 \/ ~FlowIndexOk(shape, i, d)
              THEN [afterAdd EXCEPT !.raised = "IndexError"]
              ELSE
                LET rotated == ZeroAndShift(added, d.now)
                    afterShift ==
                        [afterAdd EXCEPT !.out_flow = StoreFlow(@, shape, i, d, added[1]),
                                         !.point_dict[i].d.ring = rotated]
                IN  IF ~return_state THEN afterShift
                    ELSE IF ~StateIndexOk(first.out_state, i, point)
                    THEN [afterShift EXCEPT !.raised = "IndexError"]
                    ELSE IF ~Broadcastable(Len(rotated), StateRows(first.out_state))
                    THEN [afterShift EXCEPT !.raised = "ValueError"]
                    ELSE [afterShift EXCEPT
                            !.out_state = StoreState(@, i, point, rotated)]

RECURSIVE ConvolveLoop(_, _, _, _, _)
\* Line 447: the loop over the registry, in insertion order; an exception
\* leaves the loop.
ConvolveLoop(acc, flux, return_state, shape, i) ==
    IF i > Len(acc.point_dict) \/ acc.raised # NoError THEN acc
    ELSE ConvolveLoop(ConvolvePoint(acc, flux, return_state, shape, i),
                      flux, return_state, shape, i + 1)

\* Lines 433-481.  With an empty registry the loop body never binds
\* out_state and the return statement raises UnboundLocalError.
convolve(point_dict, time_dict, flux, return_state, shape) ==
    LET start == [raised |-> NoError, point_dict |-> point_dict,
                  out_flow |-> NewOutFlow(shape), out_state |-> NoState,
                  time_dict |-> time_dict]
    IN  IF Len(point_dict) = 0
        THEN [start EXCEPT !.raised = "UnboundLocalError"]
        ELSE ConvolveLoop(start, flux, return_state, shape, 1)

\* ------------------------------------------------------------- write_output
\* Lines 271-334 with out_type "state": the state array goes to the
\* Streamflow variable and, in the array layout, the outlets' grid indices
\* go to xi and yi.  This is the file make_point_dict reads back.
StateFileOf(out_state, out_dict) ==
    IF out_state.ndim = 2
    THEN [ndim |-> 2, Streamflow |-> out_state.cols,
          xi |-> out_dict.outlet_xs, yi |-> out_dict.outlet_ys]
    ELSE [ndim |-> 3, Streamflow |-> [shape |-> out_state.shape, val |-> out_state.val]]

\* ------------------------------------------------------------- input sets
\* Sequences over S of length 1..n.
RECURSIVE InjSeqs(_, _)
InjSeqs(S, n) ==
    IF n = 0 THEN {}
    ELSE LET shorter == InjSeqs(S, n - 1)
         IN  {<<e>> : e \in S} \cup shorter
             \cup {Append(q, e) : q \in shorter, e \in S}

IsInjective(q) == \A i, j \in 1..Len(q) : q[i] = q[j] => i = j

\* The lists of unit hydrograph files a run may be given: glob() returns
\* each file once and the file names decide the (sorted) order.
UHFileLists == {q \in InjSeqs(UHNames, MaxPoints) : IsInjective(q)}

MkFlux(shp, v) == [shape |-> shp,
                   val |-> [c \in Cells(shp) |-> v[c[1] * shp[2] + c[2] + 1]]]

\* Flux grids (Runoff + Baseflow over div) a flux file may hold, listed row
\* by row, and one grid that lacks the second row of the routing grid.
FluxGrids ==
    {MkFlux(GridShape, v) : v \in {<<0, 0, 0, 0>>, <<10, 0, 0, 0>>,
                                   <<1, 0, 1, 0>>, <<0, 1, 0, 2>>}}
    \cup {MkFlux(<<1, 2>>, <<1, 0>>)}

ZeroFlux == MkFlux(GridShape, <<0, 0, 0, 0>>)

\* Lines 101-106 of init(): the shape of the output.
ShapeOf(out_type, files) == IF out_type = "grid" THEN GridShape ELSE <<Len(files)>>

\* Lines 116-119 of init().
UnitsOf(out_units) == IF out_units = "mass" THEN "kg/m2*s" ELSE "m3/s"

\* Line 160: the time of the n-th flux file (days).
TimeOfFile(n) == n - 1

\* ------------------------------------------------------------- decimals
\* Products with the constants of lines 18-27 are kept exact: a decimal is
\* [m |-> digits in base 100, lowest first, e |-> digits after the point].
RECURSIVE Limbs(_)
Limbs(n) == IF n = 0 THEN <<>> ELSE <<n % 100>> \o Limbs(n \div 100)

DecOf(n, e) == [m |-> Limbs(n), e |-> e]

RECURSIVE MulCarry(_, _, _)
\* The digits l times the integer k, plus the carry c.
MulCarry(l, k, c) ==
    IF l = <<>> THEN Limbs(c)
    ELSE LET p == Head(l) * k + c
         IN  <<p % 100>> \o MulCarry(Tail(l), k, p \div 100)

\* a * c for a decimal a and a constant c.
DecMul(a, c) == [m |-> MulCarry(a.m, c.n, 0), e |-> a.e + c.e]

\* ------------------------------------------------------------- init
\* Lines 81-96: the spellings of each area unit.
Rad2Units == {"rad2", "radians2", "radian2", "rad^2", "radians^2", "rads^2",
              "radians squared", "square-radians"}
M2Units == {"m2", "m^2", "meters^2", "meters2", "square-meters", "meters squared"}
Km2Units == {"km2", "km^2", "kilometers^2", "kilometers2", "square-kilometers",
             "kilometers squared"}
Mi2Units == {"mi2", "mi^2", "miles^2", "miles", "square-miles", "miles squared"}
AcreUnits == {"acres", "ac", "ac."}

\* Python's unbound local variable, and a variable bound to v.
Unbound == [bound |-> FALSE]
Bound(v) == [bound |-> TRUE, val |-> v]

\* The conversion with every factor taken once: no unit is squared.
AreaOf_once(units, raw) ==
    CASE units \in Rad2Units -> Bound([c \in DOMAIN raw |-> DecMul(DecOf(raw[c], 0), earthRadius)])
      [] units \in M2Units -> Bound([c \in DOMAIN raw |-> DecOf(raw[c], 0)])
      [] units \in Km2Units -> Bound([c \in DOMAIN raw |-> DecMul(DecOf(raw[c], 0), metersPerKm)])
      [] units \in Mi2Units -> Bound([c \in DOMAIN raw |-> DecMul(DecOf(raw[c], 0), metersPerMile)])
      [] units \in AcreUnits -> Bound([c \in DOMAIN raw |-> DecMul(DecOf(raw[c], 0), meters2PerAcre)])
      [] OTHER -> Unbound

\* Lines 81-99: the local variable area of init() after the if-chain, for a
\* grid file whose area variable holds raw (cell -> integer) in the unit
\* units.  The last branch prints a warning and binds nothing.
AreaOf(units, raw) ==
    CASE units \in Rad2Units ->
           Bound([c \in DOMAIN raw |-> DecMul(DecMul(DecOf(raw[c], 0), earthRadius), earthRadius)])
      [] units \in M2Units ->
           Bound([c \in DOMAIN raw |-> DecOf(raw[c], 0)])
      [] units \in Km2Units ->
           Bound([c \in DOMAIN raw |-> DecMul(DecMul(DecOf(raw[c], 0), metersPerKm), metersPerKm)])
      [] units \in Mi2Units ->
           Bound([c \in DOMAIN raw |-> DecMul(DecMul(DecOf(raw[c], 0), metersPerMile), metersPerMile)])
      [] units \in AcreUnits ->
           Bound([c \in DOMAIN raw |-> DecMul(DecOf(raw[c], 0), meters2PerAcre)])
      [] OTHER -> Unbound

AreaWarning == "WARNING: UNKNOWN AREA UNITS"

\* Lines 98-99.
AreaLog(units) ==
    IF units \in Rad2Units \cup M2Units \cup Km2Units \cup Mi2Units \cup AcreUnits
    THEN {} ELSE {AreaWarning}

\* The area units of the grid files at hand; "ft2" is in none of the lists.
GridUnits == {"rad2", "m2", "km2", "square-kilometers", "mi2", "miles", "acres", "ft2"}

\* ------------------------------------------------------------- run: flux files
\* Lines 167-176: the seconds one flux value stands for.
TimeDiv(output_frequency, output_mode) ==
    IF output_frequency = "hourly" /\ output_mode = "instantaneous" THEN 1200
    ELSE IF output_frequency = "hourly" /\ output_mode = "averaged" THEN secsPerHour
    ELSE IF output_frequency = "dailyy" /\ output_mode = "averaged" THEN secsPerDay
    ELSE secsPerHour

FrequencyWarning == "Unexpected flux output frequency"

\* Line 175.
TimeLog(output_frequency, output_mode) ==
    IF \/ output_frequency = "hourly" /\ output_mode \in {"instantaneous", "averaged"}
       \/ output_frequency = "dailyy" /\ output_mode = "averaged"
    THEN {} ELSE {FrequencyWarning}

\* Lines 178-184: depth units per meter.
DepthFactor(units) ==
    IF units = "mm" THEN mmPerMeter
    ELSE IF units = "cm" THEN cmPerMeter
    ELSE mmPerMeter

UnitsWarning == "Unexpected flux units"

\* Line 183.
DepthLog(units) == IF units \in {"mm", "cm"} THEN {} ELSE {UnitsWarning}

\* Lines 167-184: div of a flux file.
DivOf(ff) == TimeDiv(ff.output_frequency, ff.output_mode) * DepthFactor(ff.units)

\* Line 192: (Runoff + Baseflow) / div, a true division, kept as the
\* fraction num / den of each cell.
CombinedFlux(ff, d) ==
    [shape |-> ff.Runoff.shape,
     val |-> [c \in Cells(ff.Runoff.shape) |->
                [num |-> ff.Runoff.val[c] + ff.Baseflow.val[c], den |-> d]]]

Frequencies == {"hourly", "daily", "monthly"}
Modes == {"instantaneous", "averaged"}
DepthUnits == {"mm", "cm", "m"}

\* The n-th flux file of a run: its name carries the date n, and it holds
\* one timestep of Runoff and Baseflow.
FluxFile(n, frequency, mode, units) ==
    [name |-> n, time |-> TimeOfFile(n),
     output_frequency |-> frequency, output_mode |-> mode, units |-> units,
     Runoff |-> MkFlux(GridShape, <<3, 0, 1, 0>>),
     Baseflow |-> MkFlux(GridShape, <<1, 2, 0, 0>>)]

\* The queues of flux files a run may be given (flux_files of line 534-538);
\* a glob that matches no file gives the empty queue.
FluxQueues ==
    {[n \in 1..len |-> FluxFile(n, fr, mo, un)] :
        len \in {0, 1, MaxT}, fr \in Frequencies, mo \in Modes, un \in DepthUnits}

\* outputs['state'] (lines 523-526): the list of dates of the option state,
\* or False when the Outputs section has no such option.
StateDates(dates) == [given |-> TRUE, dates |-> dates]
NoStateOption == [given |-> FALSE]

\* No restart file written.
NoRestart == [written |-> FALSE]

\* ------------------------------------------------------------- state
VARIABLES
    pc,              \* "start", "init", "ready", "done", "failed_init" or "failed_step"
    err,             \* the exception that ended the process, or NoError
    gen,             \* 1: the first run; 2: a run restarted from a state file
    uh_files,        \* the unit hydrograph files, in registry order
    shape,           \* shape of the output: <<n>> (array) or <<ny, nx>> (grid)
    initial_state,   \* the state file given to the first run, or NoState
    out_dict,        \* units and the outlets' coordinates
    counts,
    point_dict,      \* the registry: OrderedDict of outlet dicts
    prev_point_dict, \* the registry as it was when the last convolve was called
    time_dict,
    fluxes,          \* the flux files read so far, by timestep
    pos,             \* number of the next flux file of this process
    flows,           \* out_flow of each timestep this process completed
    ref_flows,       \* out_flow of each timestep of the first run (gen = 2)
    out_state,       \* out_state of the last completed convolve
    state_file,      \* the state file written, and after which timestep
    grid_file,       \* the grid file: the units and values of its area variable
    outputs,         \* the Outputs section: out_type, out_units, state
    area_m2,         \* the local variable area of init(), or Unbound
    log,             \* the warnings printed
    flux_files,      \* the deque of flux files run() has left
    run_i,           \* the local variable i of run()
    run_ff,          \* the flux file run() popped last, or NoState
    div,             \* the local variable div of run() (0: not bound yet)
    run_flux,        \* the local variable flux of run(), or NoState
    state_requested, \* the local variable return_state of run()
    restart_file     \* the restart file written by write_restart, or NoRestart

\* What init() and run() add to the state of the routines they call.
runVars == <<grid_file, outputs, area_m2, log, flux_files, run_i, run_ff, div, run_flux,
             state_requested, restart_file>>

vars == <<pc, err, gen, uh_files, shape, initial_state, out_dict, counts,
          point_dict, prev_point_dict, time_dict, fluxes, pos, flows,
          ref_flows, out_state, state_file, runVars>>

NoStateFile == [t |-> 0, file |-> NoState]

InitWith(states, unitset) ==
    /\ pc = "init"
    /\ err = NoError
    /\ gen = 1
    /\ uh_files \in UHFileLists
    /\ \E out_type \in {"array", "grid"} : shape = ShapeOf(out_type, uh_files)
    /\ initial_state \in states
    /\ \E out_units \in unitset : out_dict = [units |-> UnitsOf(out_units)]
    /\ counts = [timesteps |-> 0, out_files |-> 0, state_files |-> 0, restart_files |-> 0]
    /\ point_dict = <<>>
    /\ prev_point_dict = <<>>
    /\ time_dict = [time_step |-> 0]
    /\ fluxes = <<>>
    /\ pos = 1
    /\ flows = <<>>
    /\ ref_flows = <<>>
    /\ out_state = NoState
    /\ state_file = NoStateFile

\* init() has read a grid file in square meters (lines 72-120) and run()
\* has no flux file of its own: the timesteps are made on flux grids that
\* are handed to convolve directly.
GridRead ==
    /\ grid_file = [units |-> "m2", area |-> area]
    /\ outputs = [out_type |-> OutType(shape), out_units |-> "volume",
                  state |-> StateDates({})]
    /\ area_m2 = AreaOf(grid_file.units, grid_file.area)
    /\ log = {}
    /\ flux_files = <<>>
    /\ run_i = 0
    /\ run_ff = NoState
    /\ div = 0
    /\ run_flux = NoState
    /\ state_requested = FALSE
    /\ restart_file = NoRestart

\* A cold start: no initial state file.
Init == InitWith({NoState}, {"volume"}) /\ GridRead

\* Lines 124-125: the registry is built (and restored) once, before the
\* first timestep.
\* The argument area is evaluated first: with area unbound the call raises
\* UnboundLocalError before make_point_dict is entered.
MakePointDict ==
    /\ pc = "init"
    /\ IF area_m2 = Unbound
       THEN /\ err' = "UnboundLocalError"
            /\ pc' = "failed_init"
            /\ UNCHANGED <<point_dict, out_dict, counts>>
       ELSE LET r == make_point_dict(uh_files, out_dict, counts, waterDensity, initial_state)
            IN  /\ point_dict' = r.point_dict
                /\ out_dict' = r.out_dict
                /\ counts' = r.counts
                /\ err' = r.raised
                /\ pc' = IF r.raised = NoError THEN "ready" ELSE "failed_init"
    /\ UNCHANGED <<gen, uh_files, shape, initial_state, prev_point_dict, time_dict,
                   fluxes, pos, flows, ref_flows, out_state, state_file>>
    /\ UNCHANGED runVars

\* A timestep that first reads the state file written earlier into the
\* rings once more.
Step_restore(flux, return_state) ==
    LET td == [time_dict EXCEPT !.time_step = TimeOfFile(pos)]
        base == IF state_file = NoStateFile THEN point_dict
                ELSE make_point_dict(uh_files, [units |-> out_dict.units], counts,
                                     waterDensity, state_file.file).point_dict
        r == convolve(base, td, flux, return_state, shape)
    IN  /\ prev_point_dict' = point_dict
        /\ point_dict' = r.point_dict
        /\ time_dict' = r.time_dict
        /\ err' = r.raised
        /\ pos' = pos + 1
        /\ IF r.raised = NoError
           THEN /\ pc' = "ready"
                /\ flows' = Append(flows, r.out_flow)
                /\ out_state' = r.out_state
           ELSE /\ pc' = "failed_step"
                /\ UNCHANGED <<flows, out_state>>
        /\ UNCHANGED <<gen, uh_files, shape, initial_state, out_dict, counts,
                       ref_flows, state_file>>
        /\ UNCHANGED runVars

\* One timestep made by a caller of convolve: the time of the flux file is
\* put in time_dict (line 160), convolve is called on the flux grid and its
\* results are bound (what lines 197-199 are meant to do; run() as written
\* is RunIteration).  The first run is given a new flux grid; a restarted
\* run the grids the first run left it.  An exception leaves the registry
\* as the loop left it and ends the process.
Step(flux, return_state) ==
    LET td == [time_dict EXCEPT !.time_step = TimeOfFile(pos)]
        r == convolve(point_dict, td, flux, return_state, shape)
    IN  /\ prev_point_dict' = point_dict
        /\ point_dict' = r.point_dict
        /\ time_dict' = r.time_dict
        /\ err' = r.raised
        /\ pos' = pos + 1
        /\ IF r.raised = NoError
           THEN /\ pc' = "ready"
                /\ flows' = Append(flows, r.out_flow)
                /\ out_state' = r.out_state
           ELSE /\ pc' = "failed_step"
                /\ UNCHANGED <<flows, out_state>>
        /\ UNCHANGED <<gen, uh_files, shape, initial_state, out_dict, counts,
                       ref_flows, state_file>>
        /\ UNCHANGED runVars

Convolve(grids) ==
    /\ pc = "ready"
    /\ gen = 1
    /\ pos <= MaxT
    /\ \E flux \in grids, return_state \in BOOLEAN :
          /\ fluxes' = Append(fluxes, flux)
          /\ Step(flux, return_state)

Next == MakePointDict \/ Convolve(FluxGrids)

Spec == Init /\ [][Next]_vars

\* ------------------------------------------------------------- restart
\* State files from elsewhere.  Row l of the column of cell c holds a value
\* that names the cell and the row.
StateColumn(c, nt) == [l \in 1..nt |-> 10 * (c[1] * GridShape[2] + c[2] + 1) + l]

\* The ring lengths of the unit hydrograph files at hand.
RingLengths == {Len(UHFile(n).unit_hydrograph) : n \in UHNames}

SeqRange(q) == {q[i] : i \in 1..Len(q)}

EntryLists == {q \in InjSeqs(Cells(GridShape), MaxPoints) : IsInjective(q)}

\* Array layout: one column per entry, the entry's cell in yi and xi.
ArrayStateFiles ==
    {[ndim |-> 2,
      Streamflow |-> [i \in 1..Len(q) |-> StateColumn(q[i], nt)],
      xi |-> [i \in 1..Len(q) |-> q[i][2]],
      yi |-> [i \in 1..Len(q) |-> q[i][1]]] : q \in EntryLists, nt \in RingLengths}

\* Grid layout: the entries' columns at their cells, zeros elsewhere.
GridStateFiles ==
    {[ndim |-> 3,
      Streamflow |-> [shape |-> <<nt, GridShape[1], GridShape[2]>>,
                      val |-> [c \in Cells(GridShape) |->
                                 IF c \in SeqRange(q) THEN StateColumn(c, nt)
                                 ELSE Zeros(nt)]]] : q \in EntryLists, nt \in RingLengths}

ExternalStates == ArrayStateFiles \cup GridStateFiles

\* The flux grids of the runs that are restarted.
RestartGrids == {MkFlux(GridShape, v) : v \in {<<0, 0, 0, 0>>, <<1, 0, 1, 0>>}}

\* A cold start or a start from a state file from elsewhere.
InitRestart == InitWith({NoState} \cup ExternalStates, {"volume"}) /\ GridRead

\* write_output with out_type "state", called as lines 209-213 call it:
\* the state array of the timestep just completed is written to a state
\* file.  One state file is kept: the one a restart will be made from.
SaveState ==
    /\ pc = "ready"
    /\ gen = 1
    /\ out_state # NoState
    /\ state_file = NoStateFile
    /\ state_file' = [t |-> pos - 1, file |-> StateFileOf(out_state, out_dict)]
    /\ UNCHANGED <<pc, err, gen, uh_files, shape, initial_state, out_dict, counts,
                   point_dict, prev_point_dict, time_dict, fluxes, pos, flows,
                   ref_flows, out_state>>
    /\ UNCHANGED runVars

\* A new process is started from the state file: it builds a fresh
\* registry from the same unit hydrograph files with the state file as
\* initial_state, and has the flux files after the state's timestep left.
Restart ==
    /\ pc = "ready"
    /\ gen = 1
    /\ state_file # NoStateFile
    /\ LET r == make_point_dict(uh_files, [units |-> out_dict.units],
                                [timesteps |-> 0, out_files |-> 0, state_files |-> 0,
                                 restart_files |-> 0],
                                waterDensity, state_file.file)
       IN  /\ point_dict' = r.point_dict
           /\ out_dict' = r.out_dict
           /\ counts' = r.counts
           /\ err' = r.raised
           /\ pc' = IF r.raised = NoError THEN "ready" ELSE "failed_init"
    /\ gen' = 2
    /\ pos' = state_file.t + 1
    /\ ref_flows' = flows
    /\ flows' = <<>>
    /\ prev_point_dict' = <<>>
    /\ out_state' = NoState
    /\ time_dict' = [time_step |-> 0]
    /\ UNCHANGED <<uh_files, shape, initial_state, fluxes, state_file>>
    /\ UNCHANGED runVars

\* A timestep of the restarted run, on the next flux file left to it.
Resume ==
    /\ pc = "ready"
    /\ gen = 2
    /\ pos <= Len(fluxes)
    /\ \E return_state \in BOOLEAN :
          /\ Step(fluxes[pos], return_state)
          /\ UNCHANGED fluxes

NextRestart ==
    MakePointDict \/ Convolve(RestartGrids) \/ SaveState \/ Restart \/ Resume

SpecRestart == InitRestart /\ [][NextRestart]_vars

\* ------------------------------------------------------------- invalid files
\* The lists of unit hydrograph files with one file of InvalidUHNames.
InvalidFileLists ==
    {q \in InjSeqs(UHNames \cup InvalidUHNames, MaxPoints) :
        /\ IsInjective(q)
        /\ Cardinality({i \in 1..Len(q) : q[i] \in InvalidUHNames}) = 1}

\* A cold start on a list of unit hydrograph files, one of them invalid.
InitInvalid ==
    /\ pc = "init"
    /\ err = NoError
    /\ gen = 1
    /\ uh_files \in InvalidFileLists
    /\ \E out_type \in {"array", "grid"} : shape = ShapeOf(out_type, uh_files)
    /\ initial_state = NoState
    /\ out_dict = [units |-> UnitsOf("volume")]
    /\ counts = [timesteps |-> 0, out_files |-> 0, state_files |-> 0, restart_files |-> 0]
    /\ point_dict = <<>>
    /\ prev_point_dict = <<>>
    /\ time_dict = [time_step |-> 0]
    /\ fluxes = <<>>
    /\ pos = 1
    /\ flows = <<>>
    /\ ref_flows = <<>>
    /\ out_state = NoState
    /\ state_file = NoStateFile
    /\ GridRead

NextInvalid == MakePointDict \/ Convolve(RestartGrids)

SpecInvalid == InitInvalid /\ [][NextInvalid]_vars

\* ------------------------------------------------------------- init and run
\* init() and run() as they are written, called one after the other on a
\* grid file in any unit and a queue of flux files.
InitRun ==
    /\ pc = "start"
    /\ err = NoError
    /\ gen = 1
    /\ uh_files \in UHFileLists
    /\ shape = <<>>
    /\ initial_state = NoState
    /\ out_dict = [units |-> "unset"]
    /\ counts = [timesteps |-> 0, out_files |-> 0, state_files |-> 0, restart_files |-> 0]
    /\ point_dict = <<>>
    /\ prev_point_dict = <<>>
    /\ time_dict = [time_step |-> 0]
    /\ fluxes = <<>>
    /\ pos = 1
    /\ flows = <<>>
    /\ ref_flows = <<>>
    /\ out_state = NoState
    /\ state_file = NoStateFile
    /\ grid_file \in {[units |-> u, area |-> area] : u \in GridUnits}
    /\ outputs \in {[out_type |-> ot, out_units |-> "volume", state |-> st] :
                       ot \in {"array", "grid"},
                       st \in {NoStateOption, StateDates({}), StateDates({1})}}
    /\ area_m2 = Unbound
    /\ log = {}
    /\ flux_files \in FluxQueues
    /\ run_i = 0
    /\ run_ff = NoState
    /\ div = 0
    /\ run_flux = NoState
    /\ state_requested = FALSE
    /\ restart_file = NoRestart

\* Lines 72-120 of init(): the grid file is read.  With unknown units area
\* stays unbound; area.shape (grid layout) then raises UnboundLocalError,
\* which the except clause raises again.
ReadGrid ==
    /\ pc = "start"
    /\ LET a == AreaOf(grid_file.units, grid_file.area)
       IN  /\ area_m2' = a
           /\ log' = log \cup AreaLog(grid_file.units)
           /\ IF outputs.out_type = "grid" /\ a = Unbound
              THEN /\ pc' = "failed_init"
                   /\ err' = "UnboundLocalError"
                   /\ UNCHANGED <<shape, out_dict>>
              ELSE /\ pc' = "init"
                   /\ err' = NoError
                   /\ shape' = ShapeOf(outputs.out_type, uh_files)
                   /\ out_dict' = [units |-> UnitsOf(outputs.out_units)]
    /\ counts' = [timesteps |-> 0, out_files |-> 0, state_files |-> 0, restart_files |-> 0]
    /\ UNCHANGED <<gen, uh_files, initial_state, point_dict, prev_point_dict, time_dict,
                   fluxes, pos, flows, ref_flows, out_state, state_file,
                   grid_file, outputs, flux_files, run_i, run_ff, div, run_flux,
                   state_requested, restart_file>>

\* Lines 147-199 of run(): one pass of the while loop.  The flux file is
\* popped and the pass is counted.  Line 152 iterates outputs['state']:
\* when that is False the generator expression raises TypeError ('bool'
\* object is not iterable) before the file is opened.  Otherwise the file
\* is read, div is made on the first pass, and flux is computed.
\* Line 197 is a statement of its own, the tuple (point_dict, out_flow):
\* out_flow is bound nowhere and the name raises NameError, so convolve
\* (line 198) and everything after it is never reached.
RunIteration ==
    /\ pc = "ready"
    /\ flux_files # <<>>
    /\ LET ff == Head(flux_files)
           i == run_i + 1
           d == IF i = 1 THEN DivOf(ff) ELSE div
       IN  /\ flux_files' = Tail(flux_files)
           /\ run_i' = i
           /\ run_ff' = ff
           /\ counts' = [counts EXCEPT !.timesteps = @ + 1]
           /\ IF ~outputs.state.given
              THEN /\ err' = "TypeError"
                   /\ UNCHANGED <<state_requested, time_dict, div, log, run_flux>>
              ELSE /\ state_requested' = (\E date \in outputs.state.dates : date = ff.name)
                   /\ time_dict' = [time_dict EXCEPT !.time_step = ff.time]
                   /\ div' = d
                   /\ log' = IF i = 1
                             THEN log \cup TimeLog(ff.output_frequency, ff.output_mode)
                                      \cup DepthLog(ff.units)
                             ELSE log
                   /\ run_flux' = CombinedFlux(ff, d)
                   /\ err' = "NameError"
    /\ pc' = "failed_step"
    /\ UNCHANGED <<gen, uh_files, shape, initial_state, out_dict, point_dict,
                   prev_point_dict, fluxes, pos, flows, ref_flows, out_state,
                   state_file, grid_file, outputs, area_m2, restart_file>>

\* Lines 147 and 219: with the deque empty the while loop is left and run()
\* returns out_name, state_name, restart_name and counts.
RunReturn ==
    /\ pc = "ready"
    /\ flux_files = <<>>
    /\ pc' = "done"
    /\ UNCHANGED <<err, gen, uh_files, shape, initial_state, out_dict, counts,
                   point_dict, prev_point_dict, time_dict, fluxes, pos, flows,
                   ref_flows, out_state, state_file>>
    /\ UNCHANGED runVars

NextRun == ReadGrid \/ MakePointDict \/ RunIteration \/ RunReturn

SpecRun == InitRun /\ [][NextRun]_vars

\* ------------------------------------------------------------- reading results
\* The streamflow of the i-th outlet of registry pd in one out_flow.
EmittedOf(flow, pd, i) ==
    IF Len(shape) = 1 THEN flow[i] ELSE flow[pd[i].key]

RingOf(pd, i) == pd[i].d.ring

ColdStart == initial_state = NoState /\ gen = 1

RECURSIVE SumTo(_, _)
\* f(1) + ... + f(n) for a sequence f.
SumTo(f, n) == IF n = 0 THEN 0 ELSE f[n] + SumTo(f, n - 1)

Min(a, b) == IF a < b THEN a ELSE b

\* ------------------------------------------------------------- C1
ScenarioUH == << <<5>>, <<3>>, <<2>> >>
ScenarioFlux(t) == IF t = 1 THEN 10 ELSE 0
ScenarioEmitted(t) == CASE t = 1 -> 50 [] t = 2 -> 30 [] t = 3 -> 20 [] OTHER -> 0

\* The run of the scenario: one outlet with coefficients 0.5, 0.3, 0.2 on
\* one contributing cell, a cold start, and the cell's flux 10, 0, 0, ...
ScenarioRun ==
    /\ ColdStart
    /\ pc = "ready"
    /\ Len(point_dict) = 1
    /\ point_dict[1].d.uh = ScenarioUH
    /\ \A t \in 1..Len(fluxes) :
          /\ FluxCovers(fluxes[t], point_dict[1].d)
          /\ FluxAt(fluxes[t], point_dict[1].d.yi[1], point_dict[1].d.xi[1])
                = ScenarioFlux(t)

\* C1: in the scenario (L = 3, K = 1, coefficients 0.5, 0.3, 0.2, cold
\* start, flux 10, 0, 0, 0) the successive convolve calls emit 5.0, 3.0,
\* 2.0, 0.0 (50, 30, 20, 0 tenths) and the ring right after the first call
\* is [3.0, 2.0, 0.0].
C1_Scenario ==
    ScenarioRun =>
        /\ Len(flows) = Len(fluxes)
        /\ \A t \in 1..Len(flows) :
              EmittedOf(flows[t], point_dict, 1) = ScenarioEmitted(t)
        /\ (Len(fluxes) = 1 => RingOf(point_dict, 1) = <<30, 20, 0>>)

C1_Witness == ScenarioRun /\ Len(flows) = 4

\* ------------------------------------------------------------- C2
\* The direct discrete convolution for outlet dict d at timestep t (t counts
\* from 1): the sum over the lags l = 0..min(t-1, L-1) and the contributing
\* cells k of flux[t-l][cell k] * uh[l, k].
DirectConvolution(d, t) ==
    SumTo([l \in 1..Min(t, Len(d.uh)) |->
             SumSeq([k \in 1..Len(d.yi) |->
                       FluxAt(fluxes[t - l + 1], d.yi[k], d.xi[k]) * d.uh[l][k]])],
          Min(t, Len(d.uh)))

\* C2: from a cold start, the value convolve emits for an outlet at
\* timestep t is the direct discrete convolution of the flux grids read so
\* far with the outlet's coefficients.
C2_DirectConvolution ==
    ColdStart =>
        \A t \in 1..Len(flows) : \A i \in 1..Len(point_dict) :
            EmittedOf(flows[t], point_dict, i) = DirectConvolution(point_dict[i].d, t)

\* A third timestep whose streamflow holds water of an earlier timestep.
C2_Witness ==
    /\ ColdStart
    /\ Len(flows) >= 3
    /\ \E i \in 1..Len(point_dict) :
          LET d == point_dict[i].d
          IN  /\ Len(d.yi) = 2
              /\ EmittedOf(flows[3], point_dict, i)
                   > SumSeq([k \in 1..Len(d.yi) |->
                               FluxAt(fluxes[3], d.yi[k], d.xi[k]) * d.uh[1][k]])

\* ------------------------------------------------------------- C4
\* The flux of outlet dict d's only contributing cell is 1 at the first
\* timestep and 0 at every later one.
UnitImpulse(d) ==
    /\ Len(d.yi) = 1
    /\ Len(flows) >= 1
    /\ \A t \in 1..Len(flows) :
          FluxAt(fluxes[t], d.yi[1], d.xi[1]) = (IF t = 1 THEN 1 ELSE 0)

\* C4: conservation.  For an outlet with one contributing cell, a cold
\* start and a unit impulse, the values emitted over the first L timesteps
\* sum to the sum S of the L coefficients, and every later value is 0.
C4_Conservation ==
    ColdStart =>
        \A i \in 1..Len(point_dict) :
            LET d == point_dict[i].d
                L == Len(d.uh)
                emitted == [t \in 1..Len(flows) |-> EmittedOf(flows[t], point_dict, i)]
            IN  (UnitImpulse(d) /\ Len(flows) >= L) =>
                    /\ SumTo(emitted, L) = SumSeq([l \in 1..L |-> d.uh[l][1]])
                    /\ \A t \in (L + 1)..Len(flows) : emitted[t] = 0

C4_Witness ==
    /\ ColdStart
    /\ \E i \in 1..Len(point_dict) :
          /\ UnitImpulse(point_dict[i].d)
          /\ Len(point_dict[i].d.uh) = 3
          /\ Len(flows) >= 4

\* ------------------------------------------------------------- C6
\* C6: when a timestep fails for some outlet, no outlet's ring has been
\* changed by that timestep.
C6_AtomicOnFailure ==
    pc = "failed_step" =>
        \A i \in 1..Len(point_dict) :
            "ring" \in DOMAIN point_dict[i].d =>
                RingOf(point_dict, i) = RingOf(prev_point_dict, i)

\* ------------------------------------------------------------- C7
Perms(n) == {q \in [1..n -> 1..n] : \A a, b \in 1..n : q[a] = q[b] => a = b}

\* The registry with its outlets in the order q.
Reordered(pd, q) == [j \in 1..Len(pd) |-> pd[q[j]]]

\* The last completed timestep made again on the registry in the order q.
LastStepIn(q) ==
    convolve(Reordered(prev_point_dict, q),
             [time_dict EXCEPT !.time_step = TimeOfFile(pos - 1)],
             fluxes[pos - 1], out_state # NoState, shape)

C3_RestartEquivalence ==
    gen = 2 =>
        /\ pc = "ready"
        /\ \A j \in 1..Len(flows) : \A i \in 1..Len(point_dict) :
              EmittedOf(flows[j], point_dict, i)
                 = EmittedOf(ref_flows[state_file.t + j], point_dict, i)

\* ------------------------------------------------------------- C5
\* Timesteps this process has completed.
Completed == Len(flows)

\* The last n flux grids this process was given are all zero.
LastFluxesZero(n) == \A t \in (pos - n)..(pos - 1) : fluxes[t] = ZeroFlux

\* C5: drain to zero.  From a ring this process reached by advancing at
\* least once, after L more timesteps in a row with an all-zero flux grid
\* every entry of the outlet's ring is zero.  (That the ring then has
\* length L is the subject of C8.)
C5_DrainToZero ==
    pc = "ready" =>
        \A i \in 1..Len(point_dict) :
            LET L == Len(point_dict[i].d.uh)
                ring == RingOf(point_dict, i)
            IN  (Completed >= L + 1 /\ LastFluxesZero(L)) =>
                    \A l \in 1..Len(ring) : ring[l] = 0

\* ------------------------------------------------------------- C8
\* C8: ring-length invariance.  In every state of a run, cold-started or
\* restored, every outlet's ring has the length L of its coefficient
\* matrix, and a timestep leaves the length as it was.
C8_RingLength ==
    pc = "ready" =>
        \A i \in 1..Len(point_dict) :
            "ring" \in DOMAIN point_dict[i].d =>
                /\ Len(RingOf(point_dict, i)) = Len(point_dict[i].d.uh)
                /\ Completed >= 1 =>
                      Len(RingOf(point_dict, i)) = Len(RingOf(prev_point_dict, i))

\* ------------------------------------------------------------- C9, C10
KeyOfFile(name) == <<UHFile(name).outlet_y, UHFile(name).outlet_x>>

RegistryKeys == {KeyOfFile(uh_files[i]) : i \in 1..Len(uh_files)}

\* The keys a state file has an entry for: the (yi, xi) pairs of the array
\* layout, the cells of the grid of the grid layout.
EntryKeys(st) ==
    IF st.ndim = 2
    THEN {<<st.yi[i], st.xi[i]>> : i \in 1..Len(st.Streamflow)}
    ELSE Cells(<<st.Streamflow.shape[2], st.Streamflow.shape[3]>>)

EntryOf(st, key) ==
    IF st.ndim = 2
    THEN st.Streamflow[CHOOSE i \in 1..Len(st.Streamflow) : <<st.yi[i], st.xi[i]>> = key]
    ELSE st.Streamflow.val[key]

\* The first run was started from a state file and make_point_dict is over.
Restored == gen = 1 /\ initial_state # NoState /\ pc # "init"

\* C9: a restore from a state file that lacks the entry of some outlet of
\* the registry fails at restore time; no timestep is made, and no outlet
\* is advanced whose ring was never set.
C9_MissingState ==
    /\ (Restored /\ ~(RegistryKeys \subseteq EntryKeys(initial_state))) =>
            (pc = "failed_init" /\ fluxes = <<>>)
    /\ (Completed >= 1 =>
            \A i \in 1..Len(prev_point_dict) : "ring" \in DOMAIN prev_point_dict[i].d)

\* C10: a restore from a state file that has an entry for every outlet of
\* the registry and also entries that match no outlet succeeds, and every
\* outlet's ring is its own entry of the state file.
C10_ExtraEntriesIgnored ==
    (/\ Restored
     /\ RegistryKeys \subseteq EntryKeys(initial_state)
     /\ ~(EntryKeys(initial_state) \subseteq RegistryKeys)) =>
        /\ pc # "failed_init"
        /\ fluxes = <<>> =>
              \A i \in 1..Len(point_dict) :
                  RingOf(point_dict, i) = EntryOf(initial_state, point_dict[i].key)
\* ------------------------------------------------------------- C11
KnownAreaUnits == Rad2Units \cup M2Units \cup Km2Units \cup Mi2Units \cup AcreUnits

\* init() is over: it returned or it raised.
InitOver == pc \notin {"start", "init"}

\* C11: a grid file whose area unit is not recognized is no hard failure:
\* init prints a warning, takes the area values as square meters, and
\* returns a registry with every outlet, in the array and the grid layout.
C11_UnknownAreaUnits ==
    (InitOver /\ grid_file.units \notin KnownAreaUnits) =>
        /\ AreaWarning \in log
        /\ area_m2 = AreaOf("m2", grid_file.area)
        /\ pc # "failed_init"
        /\ Len(point_dict) = Len(uh_files)

\* ------------------------------------------------------------- C20
\* The factors of the conversion table, written out: 6371220^2 =
\* 40592444288400, 1000^2, 1609.34^2 = 2589975.2356 and 4046.856.
TableFactor(units) ==
    CASE units \in Rad2Units -> [m |-> <<0, 84, 28, 44, 24, 59, 40>>, e |-> 0]
      [] units \in M2Units -> DecOf(1, 0)
      [] units \in Km2Units -> DecOf(1000000, 0)
      [] units \in Mi2Units -> [m |-> <<56, 23, 75, 99, 58, 2>>, e |-> 4]
      [] units \in AcreUnits -> DecOf(4046856, 3)

\* The decimal a taken k times.
Times(a, k) == [m |-> MulCarry(a.m, k, 0), e |-> a.e]

\* C20: for a grid file in a recognized unit, init's area is the file's
\* area value times the unit's fixed factor (Earth radius squared, 1, 1e6,
\* 1609.34 squared, 4046.856); 2 km2 become 2,000,000 and 1 acre 4046.856.
C20_AreaConversion ==
    (pc # "start" /\ grid_file.units \in KnownAreaUnits) =>
        /\ \A c \in DOMAIN grid_file.area :
              area_m2.val[c] = Times(TableFactor(grid_file.units), grid_file.area[c])
        /\ \A c \in DOMAIN grid_file.area :
              /\ (grid_file.units \in Km2Units /\ grid_file.area[c] = 2) =>
                     area_m2.val[c] = DecOf(2000000, 0)
              /\ (grid_file.units \in AcreUnits /\ grid_file.area[c] = 1) =>
                     area_m2.val[c] = DecOf(4046856, 3)

\* init has converted a grid in square miles that holds the value 2.
C20_Witness ==
    /\ pc = "ready"
    /\ grid_file.units \in Mi2Units
    /\ \E c \in DOMAIN grid_file.area :
          grid_file.area[c] = 2 /\ area_m2.val[c] = [m |-> <<12, 47, 50, 99, 17, 5>>, e |-> 4]
\* ------------------------------------------------------------- C12
\* The table of divisors: seconds per flux value and depth units per meter.
TableSeconds(frequency, mode) ==
    CASE frequency = "hourly" /\ mode = "instantaneous" -> 1200
      [] frequency = "hourly" /\ mode = "averaged" -> 3600
      [] frequency = "daily" /\ mode = "averaged" -> 86400
      [] OTHER -> 3600

TableDepth(units) ==
    CASE units = "mm" -> 1000
      [] units = "cm" -> 100
      [] OTHER -> 1000

\* C12: for every frequency, mode and depth unit of the flux file, the
\* flux of each cell is (runoff + baseflow) / div with div = T * U from the
\* table: T = 1200, 3600, 86400 for (hourly, instantaneous), (hourly,
\* averaged), (daily, averaged) and 3600 with a warning otherwise; U = 1000
\* for mm, 100 for cm and 1000 with a warning otherwise.
C12_FluxDivisor ==
    run_flux # NoState =>
        /\ \A c \in Cells(run_ff.Runoff.shape) :
              /\ run_flux.val[c].num = run_ff.Runoff.val[c] + run_ff.Baseflow.val[c]
              /\ run_flux.val[c].den =
                    TableSeconds(run_ff.output_frequency, run_ff.output_mode)
                       * TableDepth(run_ff.units)
        /\ FrequencyWarning \in log <=>
              ~(\/ run_ff.output_frequency = "hourly"
                \/ run_ff.output_frequency = "daily" /\ run_ff.output_mode = "averaged")
        /\ UnitsWarning \in log <=> run_ff.units \notin {"mm", "cm"}
\* ------------------------------------------------------------- C13
\* L <= 0 or K <= 0.  (Coefficients are integers here: a non-finite
\* coefficient is not among the files at hand.)
InvalidUnitHydrograph(f) == Len(f.unit_hydrograph) <= 0 \/ Len(f.yi) <= 0

\* C13: registering an outlet whose unit hydrograph has L <= 0 or K <= 0
\* fails with InvalidUnitHydrograph, and no such outlet is in the registry
\* when the first timestep is advanced.
C13_InvalidUnitHydrograph ==
    /\ (pc # "init" /\ \E i \in 1..Len(uh_files) : InvalidUnitHydrograph(UHFile(uh_files[i]))) =>
            (pc = "failed_init" /\ err = "InvalidUnitHydrograph")
    /\ (pos > 1 =>
            \A i \in 1..Len(prev_point_dict) :
                LET d == prev_point_dict[i].d
                IN  Len(d.uh) > 0 /\ Len(d.yi) > 0)
\* ------------------------------------------------------------- C14
\* The ring the state file st supplies for the outlet with key k has a
\* length other than the L of the unit hydrograph file name.
WrongLength(st, name) ==
    /\ KeyOfFile(name) \in EntryKeys(st)
    /\ Len(EntryOf(st, KeyOfFile(name))) # Len(UHFile(name).unit_hydrograph)

\* C14: a restore that supplies, for some outlet, a ring whose length is
\* not the outlet's L fails with ShapeMismatch before any timestep; no
\* outlet enters a timestep with a ring of another length than L.
C14_ShapeMismatch ==
    /\ (Restored /\ \E i \in 1..Len(uh_files) : WrongLength(initial_state, uh_files[i])) =>
            (pc = "failed_init" /\ err = "ShapeMismatch" /\ fluxes = <<>>)
    /\ (pos > 1 =>
            \A i \in 1..Len(prev_point_dict) :
                "ring" \in DOMAIN prev_point_dict[i].d =>
                    Len(RingOf(prev_point_dict, i)) = Len(prev_point_dict[i].d.uh))
\* ------------------------------------------------------------- C15
\* What the state array holds for the i-th outlet of registry pd.
SnapshotOf(st, pd, i) ==
    IF st.ndim = 2 THEN st.cols[i] ELSE st.val[pd[i].key]

\* C15: when state is requested for a timestep, the state array holds for
\* every outlet that outlet's own ring after the rotation, also when the
\* outlets' ring lengths differ.
C15_SnapshotIsRing ==
    (pc = "ready" /\ out_state # NoState) =>
        \A i \in 1..Len(point_dict) :
            SnapshotOf(out_state, point_dict, i) = RingOf(point_dict, i)
\* ------------------------------------------------------------- C16
\* The value the last completed timestep emitted for the i-th outlet: the
\* first slot of its ring once the timestep's contribution was added.
LastEmitted(i) ==
    LET d == prev_point_dict[i].d
    IN  d.ring[1] + Contribution(fluxes[pos - 1], d)[1]

\* C16: output assembly.  In the array layout the i-th element of the
\* output is the value emitted by the i-th outlet of the registry; in the
\* grid layout each outlet's value is at the outlet's cell (y, x) and every
\* other cell is 0.
C16_OutputAssembly ==
    (pc = "ready" /\ Completed >= 1) =>
        LET flow == flows[Len(flows)]
        IN  IF Len(shape) = 1
            THEN /\ Len(flow) = Len(point_dict)
                 /\ \A i \in 1..Len(point_dict) : flow[i] = LastEmitted(i)
            ELSE \A c \in Cells(shape) :
                    IF HasKey(point_dict, c)
                    THEN flow[c] = LastEmitted(IndexOfKey(point_dict, c))
                    ELSE flow[c] = 0

\* A grid output with two outlets that both emit water.
C16_Witness ==
    /\ pc = "ready"
    /\ Len(shape) = 2
    /\ Len(point_dict) = 2
    /\ Completed >= 2
    /\ \A i \in 1..2 : flows[Len(flows)][point_dict[i].key] > 0
    /\ \E c \in Cells(shape) : ~HasKey(point_dict, c)
\* ------------------------------------------------------------- C17
\* Lines 210 and 243-244: the restart file that goes with the state file of
\* flux file ff when the files rest are left in the deque.
RestartFor(ff, rest) ==
    [written |-> TRUE,
     flux_files |-> [n \in 1..Len(rest) |-> rest[n].name],
     initial_state |-> <<"state_", ff.name>>]

\* C17: when a state is requested for flux file i of the queue f1..fn, the
\* pass of run() that processes it writes a restart file that lists the
\* files f(i+1)..fn not yet processed, in their order, and names the state
\* file just written as initial state.
C17_RestartDescriptor ==
    (run_i >= 1 /\ state_requested) =>
        restart_file = RestartFor(run_ff, flux_files)

\* ------------------------------------------------------------- C18
\* C18: restore writes the rings only before the first timestep of a run.
\* Once a process has advanced a timestep, its registry changes only by a
\* convolve call on the next flux grid.
C18_RestoreBeforeAdvance ==
    [][(Completed >= 1 /\ gen' = gen /\ point_dict' # point_dict) =>
          /\ pos' = pos + 1
          /\ \E return_state \in BOOLEAN :
                point_dict' = convolve(point_dict,
                                       [time_dict EXCEPT !.time_step = TimeOfFile(pos)],
                                       fluxes'[pos], return_state, shape).point_dict]_vars

\* A run restored from a state file that went on to advance timesteps
\* which changed its rings.
C18_Witness ==
    /\ gen = 2
    /\ pc = "ready"
    /\ Completed >= 2
    /\ point_dict # prev_point_dict

\* ------------------------------------------------------------- C19
\* C19: the time recorded with a state is, for each outlet, the time of the
\* flux file just processed plus the first entry of that outlet's own time
\* axis.
C19_StateTime ==
    (pc = "ready" /\ out_state # NoState) =>
        \A i \in 1..Len(point_dict) :
            time_dict.out_state_time[1]
               = time_dict.time_step + point_dict[i].d.time[1]

\* ------------------------------------------------------------- C21
\* The contribution the last completed timestep added to the ring of the
\* i-th outlet (line 460, right-hand side).
LastContribution(i) == Contribution(fluxes[pos - 1], prev_point_dict[i].d)

\* C21: step semantics.  With ring r before a timestep and contribution c
\* (both 0-based in the source, 1-based here), the timestep emits
\* r[0] + c[0] and leaves the ring r' of length L with
\* r'[l] = r[l+1] + c[l+1] for l in 0..L-2 and r'[L-1] = 0, where L is the
\* number of rows of the outlet's coefficient matrix.
C21_StepSemantics ==
    (pc = "ready" /\ Completed >= 1) =>
        \A i \in 1..Len(point_dict) :
            LET L == Len(prev_point_dict[i].d.uh)
                r == RingOf(prev_point_dict, i)
                c == LastContribution(i)
                after == RingOf(point_dict, i)
            IN  /\ EmittedOf(flows[Len(flows)], point_dict, i) = r[1] + c[1]
                /\ Len(after) = L
                /\ \A l \in 1..(L - 1) : after[l] = r[l + 1] + c[l + 1]
                /\ after[L] = 0

\* ------------------------------------------------------------- C22
\* The ring the i-th outlet of this process started from: what
\* make_point_dict made of the state file the process was given.
InitialRing(i) ==
    LET given == IF gen = 1 THEN initial_state ELSE state_file.file
    IN  make_point_dict(uh_files, [units |-> out_dict.units],
                        [timesteps |-> 0, out_files |-> 0, state_files |-> 0,
                         restart_files |-> 0],
                        waterDensity, given).point_dict[i].d.ring

\* The flux grid of the j-th timestep this process completed.
FluxOfStep(j) == fluxes[pos - Completed + j - 1]

\* All L entries of the contributions of the timesteps completed, summed.
ContributedSoFar(i) ==
    SumSeq([j \in 1..Completed |->
              SumSeq(Contribution(FluxOfStep(j), point_dict[i].d))])

\* The values emitted for the i-th outlet so far, summed.
EmittedSoFar(i) ==
    SumSeq([j \in 1..Completed |-> EmittedOf(flows[j], point_dict, i)])

\* C22: mass balance.  Between timesteps the sum of an outlet's ring is the
\* sum of the ring it started from, plus all entries of the contribution
\* of every timestep processed, minus everything emitted so far.
C22_MassBalance ==
    pc = "ready" =>
        \A i \in 1..Len(point_dict) :
            "ring" \in DOMAIN point_dict[i].d =>
                SumSeq(RingOf(point_dict, i))
                   = SumSeq(InitialRing(i)) + ContributedSoFar(i) - EmittedSoFar(i)

\* ------------------------------------------------------------- C23
RECURSIVE LoopAfter(_, _)
\* The loop of the last convolve call (line 447) after its first k passes,
\* each pass the advance of one outlet; an exception ends the loop.
LoopAfter(k, return_state) ==
    IF k = 0
    THEN [raised |-> NoError, point_dict |-> prev_point_dict,
          out_flow |-> NewOutFlow(shape), out_state |-> NoState,
          time_dict |-> [time_step |-> TimeOfFile(pos - 1)]]
    ELSE LET before == LoopAfter(k - 1, return_state)
         IN  IF before.raised # NoError THEN before
             ELSE ConvolvePoint(before, fluxes[pos - 1], return_state, shape, k)

\* Registry after differs from registry before in the ring of outlet i at
\* most: same keys in the same order, the other outlets' dicts as they
\* were, and every field of outlet i but its ring as it was.
OnlyRingOf(i, before, after) ==
    /\ Len(after) = Len(before)
    /\ \A j \in 1..Len(before) :
          /\ after[j].key = before[j].key
          /\ j # i => after[j] = before[j]
          /\ DOMAIN after[j].d = DOMAIN before[j].d
          /\ \A f \in DOMAIN before[j].d \ {"ring"} : after[j].d[f] = before[j].d[f]

\* C23: frame of the advance of one outlet.  Each pass of the loop of a
\* convolve call changes, in the registry, only the ring of the outlet it
\* advances: the other outlets' rings, every outlet's coefficient matrix and
\* contributing cells and the keys and their order stay as they were; the
\* registry the call leaves is the one its last pass left.
C23_Frame ==
    prev_point_dict # <<>> =>
        /\ \A return_state \in BOOLEAN : \A k \in 1..Len(prev_point_dict) :
              OnlyRingOf(k, LoopAfter(k - 1, return_state).point_dict,
                            LoopAfter(k, return_state).point_dict)
        /\ \E return_state \in BOOLEAN :
              point_dict = LoopAfter(Len(prev_point_dict), return_state).point_dict

\* A timestep on two outlets that changed both rings: the pass of the
\* second outlet found the first outlet's ring already advanced.
C23_Witness ==
    /\ pc = "ready"
    /\ Len(point_dict) = 2
    /\ Completed >= 2
    /\ \A i \in 1..2 :
          /\ RingOf(point_dict, i) # RingOf(prev_point_dict, i)
          /\ SumSeq(RingOf(prev_point_dict, i)) > 0

\* ------------------------------------------------------------- C24
\* init() returned and run() was called.
RunCalled == pc \in {"ready", "done", "failed_step"}

\* C24: run() takes the flux files in queue order, each once (the files of
\* a queue are named 1, 2, ... in their order), every pass advances every
\* outlet once, and the loop ends only with the queue empty and
\* counts['timesteps'] the number of files that were queued.
C24_QueueOrder ==
    RunCalled =>
        /\ run_i >= 1 => run_ff.name = run_i
        /\ counts.timesteps = run_i
        /\ Completed = run_i
        /\ pc # "ready" => (pc = "done" /\ flux_files = <<>>)

\* ------------------------------------------------------------- C25
\* C25: a pass of run() that has read its flux file gets the four results
\* of convolve bound: no exception, the timestep is completed on the
\* registry and its streamflow is written (out_type is never "false"
\* here, so every pass writes one output file).
C25_ResultsBound ==
    (run_i >= 1 /\ run_flux # NoState) =>
        /\ err = NoError
        /\ Completed = run_i
        /\ counts.out_files = run_i

\* ------------------------------------------------------------- C26
\* C26: with no option state in the Outputs section no pass of run()
\* asks for a state, no state file and no restart file is written, and no
\* pass of run() ends in an exception.
C26_NoStateOption ==
    ~outputs.state.given =>
        /\ ~state_requested
        /\ state_file = NoStateFile
        /\ restart_file = NoRestart
        /\ counts.state_files = 0
        /\ pc # "failed_step"

====
